---- MODULE Spec2Model ----
(***************************************************************************)
(* Model of the source-text transformation engine of                       *)
(* Agent/src/agent/utils/hyperopt_utils.py: comment stripping, logical     *)
(* block merging, bracket matching, call argument parsing and merging,     *)
(* hyperparameter assignment, blackbox wrapping and unwrapping.            *)
(*                                                                         *)
(* A Python str is a sequence of one-character strings.  Indices are       *)
(* 1-based here (Python index + 1); "not found" (-1 in Python) is 0.       *)
(***************************************************************************)
EXTENDS Integers, Sequences, FiniteSets, TLC

VARIABLES
    pc,          \* which call of the engine has been made so far
    code,        \* the Source Script handed to assign_hyperopt / wrap_code
    space,       \* the Hyperparameter Space: sequence of [name, params]
    candidate,   \* the Candidate handed to assign_hyperopt
    cv_args,     \* the caller's cv_args dict: sequence of [k, v], in insertion order
    result,      \* outcome of the last assign_hyperopt / wrap_code call
    wrapped_code_lines,  \* the lines handed to unwrap_code
    unwrapped,   \* outcome of unwrap_code on those lines
    rewrapped,   \* outcome of a second wrap_code call with the same objects
    logical_blocks,  \* outcome of convert_to_single_line_blocks on the script
    line,        \* find_matching_parenthesis: the line
    start_ind,   \* find_matching_parenthesis: the start index
    ptype,       \* find_matching_parenthesis: the parenthesis type
    matched,     \* outcome of find_matching_parenthesis
    args,        \* transform_args: the Argument List
    map_args,    \* transform_args: the override mapping, in iteration order
    merged,      \* outcome of transform_args(args, map_args)
    reparsed,    \* outcome of parse_function_call on the merged call
    remerged     \* outcome of transform_args(reparsed, map_args)

vars == <<pc, code, space, candidate, cv_args, result, wrapped_code_lines,
          unwrapped, rewrapped, logical_blocks,
          line, start_ind, ptype, matched,
          args, map_args, merged, reparsed, remerged>>

----------------------------------------------------------------------------
(* Bounds of the model.                                                     *)

MaxToks == 4        \* tokens in a Source Script
MaxLineLen == 5     \* characters in a line given to find_matching_parenthesis
MaxArgs == 2        \* entries of an Argument List
MaxStrLen == 1      \* characters of a string-valued keyword argument
MaxLines == 4       \* lines given to unwrap_code on its own
MaxIndentLen == 3   \* characters of such a line before its line break

----------------------------------------------------------------------------
(* Python str primitives.                                                   *)

None == "None"

Whitespace == {" ", "\t", "\n", "\r", "\f"}

Min(S) == CHOOSE m \in S : \A n \in S : m <= n

RECURSIVE Count(_, _)
\* str.count for a one-character pattern
Count(s, c) ==
    IF s = <<>> THEN 0
    ELSE (IF Head(s) = c THEN 1 ELSE 0) + Count(Tail(s), c)

\* s[i:i+len(pat)] == pat
MatchAt(s, pat, i) ==
    /\ i >= 1
    /\ i + Len(pat) - 1 <= Len(s)
    /\ \A k \in 1..Len(pat) : s[i + k - 1] = pat[k]

\* str.find: index of the first occurrence of pat in s, 0 when absent
Find(s, pat) ==
    LET hits == {i \in 1..(Len(s) + 1) : MatchAt(s, pat, i)}
    IN IF hits = {} THEN 0 ELSE Min(hits)

RECURSIVE Split(_, _)
\* str.split(sep) for a one-character separator: always at least one piece
Split(s, sep) ==
    LET i == Find(s, <<sep>>)
    IN IF i = 0 THEN <<s>>
       ELSE <<SubSeq(s, 1, i - 1)>> \o Split(SubSeq(s, i + 1, Len(s)), sep)

RECURSIVE LStrip(_)
LStrip(s) ==
    IF s # <<>> /\ Head(s) \in Whitespace THEN LStrip(Tail(s)) ELSE s

RECURSIVE RStrip(_)
RStrip(s) ==
    IF s # <<>> /\ s[Len(s)] \in Whitespace
    THEN RStrip(SubSeq(s, 1, Len(s) - 1)) ELSE s

\* str.strip()
Strip(s) == LStrip(RStrip(s))

RECURSIVE LStripChar(_, _)
\* str.lstrip(c) for a one-character set
LStripChar(s, c) ==
    IF s # <<>> /\ Head(s) = c THEN LStripChar(Tail(s), c) ELSE s

\* str.lower on one character, for the letters of the model's alphabet
LowerChar(c) ==
    CASE c = "M" -> "m"
      [] c = "N" -> "n"
      [] c = "C" -> "c"
      [] c = "X" -> "x"
      [] OTHER -> c

\* str.lower
Lower(s) == [i \in 1..Len(s) |-> LowerChar(s[i])]

RECURSIVE Concat(_)
\* "".join(parts)
Concat(parts) ==
    IF parts = <<>> THEN <<>> ELSE Head(parts) \o Concat(Tail(parts))

RECURSIVE Join(_, _)
\* sep.join(parts)
Join(sep, parts) ==
    IF parts = <<>> THEN <<>>
    ELSE IF Len(parts) = 1 THEN parts[1]
    ELSE parts[1] \o sep \o Join(sep, Tail(parts))

CommaSpace == <<",", " ">>

----------------------------------------------------------------------------
(* strip_comments                                                           *)

RECURSIVE StripHash(_, _, _)
\* re.sub(r'#.*', '', code): from each # to the end of its line
StripHash(s, i, skipping) ==
    IF i > Len(s) THEN <<>>
    ELSE IF s[i] = "\n" THEN <<"\n">> \o StripHash(s, i + 1, FALSE)
    ELSE IF skipping \/ s[i] = "#" THEN StripHash(s, i + 1, TRUE)
    ELSE <<s[i]>> \o StripHash(s, i + 1, FALSE)

RECURSIVE StripTriple(_, _, _)
\* re.sub(qqq(.*?)qqq, '', code): the shortest qqq...qqq on one line
StripTriple(s, q, p) ==
    IF p > Len(s) THEN <<>>
    ELSE LET qqq == <<q, q, q>>
             ends == {j \in (p + 3)..Len(s) :
                        /\ MatchAt(s, qqq, j)
                        /\ \A k \in (p + 3)..(j - 1) : s[k] # "\n"}
         IN IF MatchAt(s, qqq, p) /\ ends # {}
            THEN StripTriple(s, q, Min(ends) + 3)
            ELSE <<s[p]>> \o StripTriple(s, q, p + 1)

strip_comments(c) ==
    StripTriple(StripTriple(StripHash(c, 1, FALSE), "'", 1), "\"", 1)

----------------------------------------------------------------------------
(* convert_to_single_line_blocks                                            *)

Punctuation == {"?", ",", ".", "!", "\""}

RECURSIVE ReSub(_, _, _)
\* re.sub(r'(\s([?,.!"]))|(?<=\[|\()(.*?)(?=\)|\])', strip, line), scanning
\* from p; must_advance is set after an empty match, as in the re engine
ReSub(s, p, must_advance) ==
    IF p > Len(s) + 1 THEN <<>>
    ELSE LET alt1 == /\ p + 1 <= Len(s)
                     /\ s[p] \in Whitespace
                     /\ s[p + 1] \in Punctuation
             lookbehind == p > 1 /\ s[p - 1] \in {"[", "("}
             ends == {q \in (IF must_advance THEN p + 1 ELSE p)..Len(s) :
                        /\ s[q] \in {")", "]"}
                        /\ \A k \in p..(q - 1) : s[k] # "\n"}
         IN IF alt1
            THEN Strip(SubSeq(s, p, p + 1)) \o ReSub(s, p + 2, FALSE)
            ELSE IF lookbehind /\ ends # {}
            THEN Strip(SubSeq(s, p, Min(ends) - 1))
                     \o ReSub(s, Min(ends), Min(ends) = p)
            ELSE IF p > Len(s) THEN <<>>
            ELSE <<s[p]>> \o ReSub(s, p + 1, FALSE)

RemoveSpaceInParentheses(s) == ReSub(s, 1, FALSE)

RECURSIVE BlocksLoop(_, _, _, _, _)
\* the while loop: lines, i, new_block, n_diff, blocks
BlocksLoop(lines, i, new_block, n_diff, blocks) ==
    IF i > Len(lines)
    THEN IF n_diff = 0
         THEN [status |-> "ok", blocks |-> blocks]
         ELSE [status |-> "AssertionError", blocks |-> <<>>]
    ELSE LET n == n_diff + Count(lines[i], "(") - Count(lines[i], ")")
             nb == new_block \o RemoveSpaceInParentheses(lines[i])
         IN IF n < 0
            THEN [status |-> "AssertionError", blocks |-> <<>>]
            ELSE IF n = 0
            THEN BlocksLoop(lines, i + 1, <<>>, 0, Append(blocks, nb))
            ELSE BlocksLoop(lines, i + 1, nb, n, blocks)

convert_to_single_line_blocks(c) ==
    BlocksLoop(Split(strip_comments(c), "\n"), 1, <<>>, 0, <<>>)

----------------------------------------------------------------------------
(* find_matching_parenthesis                                                *)

\* parenthesis_pairs as a mapping from opener to closer
Matching(t) ==
    CASE t = "(" -> ")"
      [] t = "{" -> "}"
      [] t = "[" -> "]"
      [] t = "'" -> "'"
      [] t = "\"" -> "\""
      [] OTHER -> None

ParenthesisTypes == {"(", "{", "[", "'", "\""}

RECURSIVE MatchLoopFlat(_, _, _, _, _)
\* fault injection for C7: a loop that does not count nested openers
MatchLoopFlat(l, i, t, m, n_open) ==
    IF i > Len(l) THEN [status |-> "IndexError", ind |-> 0]
    ELSE IF l[i] = m THEN [status |-> "ok", ind |-> i]
    ELSE MatchLoopFlat(l, i + 1, t, m, n_open)

RECURSIVE MatchLoop(_, _, _, _, _)
\* the for loop: n_open openers pending, next index to read is i
MatchLoop(l, i, t, m, n_open) ==
    IF i > Len(l) THEN [status |-> "IndexError", ind |-> 0]
    ELSE IF l[i] = t THEN MatchLoop(l, i + 1, t, m, n_open + 1)
    ELSE IF l[i] = m
    THEN IF n_open - 1 = 0
         THEN [status |-> "ok", ind |-> i]
         ELSE MatchLoop(l, i + 1, t, m, n_open - 1)
    ELSE MatchLoop(l, i + 1, t, m, n_open)

find_matching_parenthesis(l, s, t) ==
    IF ~(s \in 1..Len(l) /\ l[s] = t)
    THEN [status |-> IF s \in 1..Len(l) THEN "AssertionError" ELSE "IndexError",
          ind |-> 0]
    ELSE IF t \notin ParenthesisTypes
    THEN [status |-> "KeyError", ind |-> 0]
    ELSE MatchLoop(l, s + 1, t, Matching(t), 1)

----------------------------------------------------------------------------
(* assign_hyperopt                                                          *)

Digits == <<"0", "1", "2", "3", "4", "5", "6", "7", "8", "9">>

RECURSIVE Str(_)
\* str(v) of a non-negative int, as the f-string formats a candidate value
Str(v) ==
    IF v < 10 THEN <<Digits[v + 1]>>
    ELSE Str(v \div 10) \o <<Digits[(v % 10) + 1]>>

\* fault injection for C4: the key lower-cased as a whole
CandidateKeyAllLower(model_name, param_name) ==
    Lower(model_name \o <<"_">> \o param_name)

\* the Candidate key read for one (model, spec) pair
CandidateKey(model_name, param_name) ==
    Lower(model_name) \o <<"_">> \o param_name

\* keyword_arguments[model_name] of assign_hyperopt
AssignKeywordArguments(cand, model) ==
    Join(CommaSpace,
         [i \in 1..Len(model.params) |->
            model.params[i] \o <<"=">>
                \o Str(cand[CandidateKey(model.name, model.params[i])])])

RECURSIVE RewriteModels(_, _, _, _, _)
\* the inner loop "for model_name in space" on one block l: the first
\* occurrence of "<model_name>(" gets its argument span replaced; n counts
\* the replacements made so far in this call
RewriteModels(l, sp, m, kwargs, n) ==
    IF m > Len(sp) THEN [status |-> "ok", line |-> l, rewrites |-> n]
    ELSE LET pattern == sp[m].name \o <<"(">>
             ind == Find(l, pattern)
             end == find_matching_parenthesis(l, ind + Len(pattern) - 1, "(")
         IN IF ind = 0 THEN RewriteModels(l, sp, m + 1, kwargs, n)
            ELSE IF end.status # "ok"
            THEN [status |-> end.status, line |-> l, rewrites |-> n]
            ELSE RewriteModels(
                     SubSeq(l, 1, ind - 1) \o pattern \o kwargs[m]
                         \o SubSeq(l, end.ind, Len(l)),
                     sp, m + 1, kwargs, n + 1)

RECURSIVE RewriteBlocks(_, _, _, _, _, _, _)
\* the outer loop "for line in blocks": each rewritten block is appended to
\* out as indent + line + "\n"
RewriteBlocks(blocks, b, sp, kwargs, indent, out, n) ==
    IF b > Len(blocks) THEN [status |-> "ok", text |-> out, rewrites |-> n]
    ELSE LET r == RewriteModels(blocks[b], sp, 1, kwargs, n)
         IN IF r.status # "ok"
            THEN [status |-> r.status, text |-> <<>>, rewrites |-> r.rewrites]
            ELSE RewriteBlocks(blocks, b + 1, sp, kwargs, indent,
                               out \o indent \o r.line \o <<"\n">>, r.rewrites)

assign_hyperopt(c, cand, sp) ==
    LET missing == \E m \in 1..Len(sp) : \E i \in 1..Len(sp[m].params) :
                      CandidateKey(sp[m].name, sp[m].params[i]) \notin DOMAIN cand
        kwargs == [m \in 1..Len(sp) |-> AssignKeywordArguments(cand, sp[m])]
        conv == convert_to_single_line_blocks(c)
    IN IF missing THEN [status |-> "KeyError", text |-> <<>>, rewrites |-> 0]
       ELSE IF conv.status # "ok"
       THEN [status |-> conv.status, text |-> <<>>, rewrites |-> 0]
       ELSE RewriteBlocks(conv.blocks, 1, sp, kwargs, <<>>, <<>>, 0)

----------------------------------------------------------------------------
(* wrap_code                                                                *)

DefBlackbox == <<"d", "e", "f", " ", "b", "l", "a", "c", "k", "b", "o", "x", "(">>

SignatureEnd == <<")", " ", "-", ">", " ", "f", "l", "o", "a", "t", ":", "\n">>

ImportLine == <<"\t", "f", "r", "o", "m", " ", "u", "t", "i", "l", "s", " ", "i", "m", "p", "o", "r", "t", " ", "k", "_", "f", "o", "l", "d", "s", "_", "c", "v", "\n">>

ScoreCall == <<"\t", "s", "c", "o", "r", "e", " ", "=", " ", "k", "_", "f", "o", "l", "d", "s", "_", "c", "v", "(">>

ScoreEnd == <<")", "\n">>

InvertLine == <<"\t", "s", "c", "o", "r", "e", " ", "=", " ", "1", ".", "0", " ", "-", " ", "s", "c", "o", "r", "e", "\n">>

ReturnLine == <<"\t", "r", "e", "t", "u", "r", "n", " ", "s", "c", "o", "r", "e">>

MetricValueDirection == <<"m", "e", "t", "r", "i", "c", "_", "v", "a", "l", "u", "e", "_", "d", "i", "r", "e", "c", "t", "i", "o", "n">>

MAX == <<"M", "A", "X">>

MIN == <<"M", "I", "N">>

\* ''.join(model_name.lower().split()) + '_'
ModelNameStr(model_name) ==
    SelectSeq(Lower(model_name), LAMBDA ch : ch \notin Whitespace) \o <<"_">>

\* arguments[model_name]
WrapArguments(model) ==
    Join(CommaSpace,
         [i \in 1..Len(model.params) |->
            ModelNameStr(model.name) \o model.params[i]])

\* keyword_arguments[model_name] of wrap_code
WrapKeywordArguments(model) ==
    Join(CommaSpace,
         [i \in 1..Len(model.params) |->
            model.params[i] \o <<"=">>
                \o ModelNameStr(model.name) \o model.params[i]])

\* arguments_str after the loop over the space and the two lstrip calls
ArgumentsStr(sp) ==
    LStripChar(
        LStrip(Concat([m \in 1..Len(sp) |-> WrapArguments(sp[m]) \o CommaSpace])),
        ",")

\* the signature line of the blackbox function
Signature(sp) == DefBlackbox \o ArgumentsStr(sp) \o SignatureEnd

\* dict.pop(key): the value and the dict without the key; KeyError if absent
Pop(d, key) ==
    IF \E i \in 1..Len(d) : d[i].k = key
    THEN [status |-> "ok",
          value |-> d[CHOOSE i \in 1..Len(d) : d[i].k = key].v,
          rest |-> SelectSeq(d, LAMBDA e : e.k # key)]
    ELSE [status |-> "KeyError", value |-> <<>>, rest |-> d]

\* the two scoring lines built from what is left of cv_args
KFoldsCvLine(cv) ==
    ImportLine \o ScoreCall
        \o Join(CommaSpace, [i \in 1..Len(cv) |-> cv[i].k \o <<"=">> \o cv[i].v])
        \o ScoreEnd

\* returns the outcome together with cv_args as the call leaves it
wrap_code(c, sp, cv) ==
    LET kwargs == [m \in 1..Len(sp) |-> WrapKeywordArguments(sp[m])]
        conv == convert_to_single_line_blocks(c)
        body == RewriteBlocks(conv.blocks, 1, sp, kwargs, <<"\t">>,
                              Signature(sp), 0)
        popped == Pop(cv, MetricValueDirection)
        fault(st, n) == [status |-> st, text |-> <<>>, rewrites |-> n,
                         cv_args |-> cv]
    IN IF conv.status # "ok" THEN fault(conv.status, 0)
       ELSE IF body.status # "ok" THEN fault(body.status, body.rewrites)
       ELSE IF popped.status # "ok" THEN fault(popped.status, body.rewrites)
       ELSE [status |-> "ok",
             text |-> body.text \o KFoldsCvLine(popped.rest)
                        \o (IF popped.value = MAX THEN InvertLine ELSE <<>>)
                        \o ReturnLine,
             rewrites |-> body.rewrites,
             cv_args |-> popped.rest]

----------------------------------------------------------------------------
(* unwrap_code                                                              *)

RECURSIVE ReadLines(_)
\* f.readlines(): the lines of a text, each keeping its "\n"
ReadLines(text) ==
    LET i == Find(text, <<"\n">>)
    IN IF text = <<>> THEN <<>>
       ELSE IF i = 0 THEN <<text>>
       ELSE <<SubSeq(text, 1, i)>> \o ReadLines(SubSeq(text, i + 1, Len(text)))

\* fault injection for C1: a slice that keeps the return line
BodyLinesWithReturn(lines) == SubSeq(lines, 2, Len(lines))

\* wrapped_code_lines[1:-1]
BodyLines(lines) == SubSeq(lines, 2, Len(lines) - 1)

\* l.split("\t")[1]
Unindent(l) == Split(l, "\t")[2]

unwrap_code(lines) ==
    LET body_lines == BodyLines(lines)
    IN IF \E i \in 1..Len(body_lines) : Len(Split(body_lines[i], "\t")) < 2
       THEN [status |-> "IndexError", text |-> <<>>]
       ELSE [status |-> "ok",
             text |-> Concat([i \in 1..Len(body_lines) |-> Unindent(body_lines[i])])]

----------------------------------------------------------------------------
(* Argument Lists: parse_function_call and transform_args                   *)

\* a keyword value after ast.literal_eval: an int or a str
Num(n) == [isstr |-> FALSE, s |-> <<>>, n |-> n]

StrVal(s) == [isstr |-> TRUE, s |-> s, n |-> 0]

\* entries of an Argument List: a positional name (str) or a (keyword, value) tuple
Positional(name) == [kw |-> FALSE, name |-> name, value |-> Num(0)]

Keyword(k, v) == [kw |-> TRUE, name |-> k, value |-> v]

Letters == {"a", "b", "c", "f", "s", "x", "y"}

Quotes == {"'", "\""}

IsDigit(ch) == \E d \in 1..10 : Digits[d] = ch

DigitValue(ch) == (CHOOSE d \in 1..10 : Digits[d] = ch) - 1

RECURSIVE IntOf(_)
\* the value of a decimal literal
IntOf(ds) ==
    IF ds = <<>> THEN 0
    ELSE 10 * IntOf(SubSeq(ds, 1, Len(ds) - 1)) + DigitValue(ds[Len(ds)])

RECURSIVE SkipBlanks(_, _)
SkipBlanks(s, i) ==
    IF i <= Len(s) /\ s[i] \in {" ", "\t"} THEN SkipBlanks(s, i + 1) ELSE i

RECURSIVE RunEnd(_, _, _)
\* first index from i on whose character is not in chars
RunEnd(s, i, chars) ==
    IF i <= Len(s) /\ s[i] \in chars THEN RunEnd(s, i + 1, chars) ELSE i

\* one string literal opening at s[i]: triple-quoted when the quote is
\* tripled, else up to the next quote (the alphabet has no backslash)
LexString(s, i) ==
    LET q == s[i]
        triple == MatchAt(s, <<q, q, q>>, i)
        closers == IF triple
                   THEN {j \in (i + 3)..Len(s) : MatchAt(s, <<q, q, q>>, j)}
                   ELSE {j \in (i + 1)..Len(s) : s[j] = q}
        j == Min(closers)
    IN IF closers = {} THEN [status |-> "SyntaxError", s |-> <<>>, next |-> i]
       ELSE IF triple
       THEN [status |-> "ok", s |-> SubSeq(s, i + 3, j - 1), next |-> j + 3]
       ELSE [status |-> "ok", s |-> SubSeq(s, i + 1, j - 1), next |-> j + 1]

RECURSIVE LexStrings(_, _, _)
\* adjacent string literals are one constant, their contents concatenated
LexStrings(s, i, acc) ==
    LET one == LexString(s, i)
        k == SkipBlanks(s, one.next)
    IN IF one.status # "ok" THEN one
       ELSE IF k <= Len(s) /\ s[k] \in Quotes
       THEN LexStrings(s, k, acc \o one.s)
       ELSE [status |-> "ok", s |-> acc \o one.s, next |-> one.next]

\* one argument expression starting at s[i]: a Name, an int or a str constant
ParseAtom(s, i) ==
    IF i > Len(s)
    THEN [status |-> "SyntaxError", kind |-> None, name |-> <<>>,
          value |-> Num(0), next |-> i]
    ELSE IF s[i] \in Quotes
    THEN LET r == LexStrings(s, i, <<>>)
         IN [status |-> r.status, kind |-> "constant", name |-> <<>>,
             value |-> StrVal(r.s), next |-> r.next]
    ELSE IF IsDigit(s[i])
    THEN LET e == RunEnd(s, i, {Digits[d] : d \in 1..10})
         IN [status |-> IF e <= Len(s) /\ s[e] \in Letters \cup Quotes
                        THEN "SyntaxError" ELSE "ok",
             kind |-> "constant", name |-> <<>>,
             value |-> Num(IntOf(SubSeq(s, i, e - 1))), next |-> e]
    ELSE IF s[i] \in Letters
    THEN LET e == RunEnd(s, i, Letters \cup {Digits[d] : d \in 1..10})
         IN [status |-> "ok", kind |-> "name", name |-> SubSeq(s, i, e - 1),
             value |-> Num(0), next |-> e]
    ELSE [status |-> "SyntaxError", kind |-> None, name |-> <<>>,
          value |-> Num(0), next |-> i]

RECURSIVE ParseArguments(_, _, _, _)
\* ast.parse on the argument list from s[i] on (a repeated keyword is no
\* fault of ast.parse, only of compiling): positional arguments in
\* pos, keywords in kws; the faults of reading the tree are raised
\* afterwards (arg.id of a constant, then literal_eval of a name)
ParseArguments(s, i, pos, kws) ==
    LET b == SkipBlanks(s, i)
        a == ParseAtom(s, b)
        e == SkipBlanks(s, a.next)
        iskw == a.kind = "name" /\ e <= Len(s) /\ s[e] = "="
        v == ParseAtom(s, SkipBlanks(s, e + 1))
        after == SkipBlanks(s, IF iskw THEN v.next ELSE a.next)
        syntax == [status |-> "SyntaxError", args |-> <<>>]
        pos2 == IF iskw THEN pos ELSE Append(pos, a)
        kws2 == IF iskw THEN Append(kws, [name |-> a.name, atom |-> v]) ELSE kws
        cont == IF s[after] = "," THEN after + 1 ELSE after
    IN IF b > Len(s) THEN syntax
       ELSE IF s[b] = ")"
       THEN IF b # Len(s) THEN syntax
            ELSE IF \E k \in 1..Len(pos) : pos[k].kind # "name"
            THEN [status |-> "AttributeError", args |-> <<>>]
            ELSE IF \E k \in 1..Len(kws) : kws[k].atom.kind # "constant"
            THEN [status |-> "ValueError", args |-> <<>>]
            ELSE [status |-> "ok",
                  args |-> [k \in 1..Len(pos) |-> Positional(pos[k].name)]
                        \o [k \in 1..Len(kws) |->
                               Keyword(kws[k].name, kws[k].atom.value)]]
       ELSE IF a.status # "ok" THEN syntax
       ELSE IF iskw /\ v.status # "ok" THEN syntax
       ELSE IF ~iskw /\ kws # <<>> THEN syntax
       ELSE IF after > Len(s) \/ s[after] \notin {",", ")"} THEN syntax
       ELSE ParseArguments(s, cont, pos2, kws2)

\* arg_list + keyword_list of the call "name(...)"
parse_function_call(func_call_str) ==
    LET f == ParseAtom(func_call_str, SkipBlanks(func_call_str, 1))
    IN IF f.status # "ok" \/ f.kind # "name" \/ f.next > Len(func_call_str)
          \/ func_call_str[f.next] # "("
       THEN [status |-> "SyntaxError", args |-> <<>>]
       ELSE ParseArguments(func_call_str, f.next + 1, <<>>, <<>>)

\* parse_arg followed by the f-string's formatting
ParseArg(v) == IF v.isstr THEN <<"'">> \o v.s \o <<"'">> ELSE Str(v.n)

InMap(map, k) == \E j \in 1..Len(map) : map[j].k = k

Lookup(map, k) == map[CHOOSE j \in 1..Len(map) : map[j].k = k].v

RECURSIVE ArgsLoop(_, _, _, _, _)
\* "for arg in args": output and seen_args after the entries from i on
ArgsLoop(as, i, map, output, seen_args) ==
    IF i > Len(as) THEN [output |-> output, seen_args |-> seen_args]
    ELSE IF ~as[i].kw
    THEN ArgsLoop(as, i + 1, map, output \o as[i].name \o CommaSpace, seen_args)
    ELSE IF ~InMap(map, as[i].name)
    THEN ArgsLoop(as, i + 1, map,
                  output \o as[i].name \o <<"=">> \o ParseArg(as[i].value)
                         \o CommaSpace,
                  seen_args)
    ELSE ArgsLoop(as, i + 1, map,
                  output \o as[i].name \o <<"=">>
                         \o ParseArg(Lookup(map, as[i].name)) \o CommaSpace,
                  seen_args \cup {as[i].name})

RECURSIVE MapLoopAll(_, _, _, _)
\* fault injection for C8: a loop that appends the seen keys as well
MapLoopAll(map, j, output, seen_args) ==
    IF j > Len(map) THEN output
    ELSE MapLoopAll(map, j + 1,
                    output \o map[j].k \o <<"=">> \o ParseArg(map[j].v)
                           \o CommaSpace,
                    seen_args)

RECURSIVE MapLoop(_, _, _, _)
\* "for arg, arg_val in map_args.items()": the keys not seen are appended
MapLoop(map, j, output, seen_args) ==
    IF j > Len(map) THEN output
    ELSE IF map[j].k \in seen_args THEN MapLoop(map, j + 1, output, seen_args)
    ELSE MapLoop(map, j + 1,
                 output \o map[j].k \o <<"=">> \o ParseArg(map[j].v)
                        \o CommaSpace,
                 seen_args)

\* "if output[-2:] == ', ': output = output[:-2]"
TrimSeparator(output) ==
    IF Len(output) >= 2 /\ SubSeq(output, Len(output) - 1, Len(output)) = CommaSpace
    THEN SubSeq(output, 1, Len(output) - 2)
    ELSE output

transform_args(as, map) ==
    LET first == ArgsLoop(as, 1, map, <<>>, {})
    IN TrimSeparator(MapLoop(map, 1, first.output, first.seen_args))

----------------------------------------------------------------------------
(* Inputs of the script operations.                                         *)

\* what a Source Script is made of: a call opener of model M, a closing
\* parenthesis, an identifier character, a line break, a tab (whitespace)
\* and a comment marker
Tokens == {<<"M", "(">>, <<")">>, <<"x">>, <<"\n">>, <<"\t">>, <<"#">>}

RECURSIVE TokenSeqs(_)
TokenSeqs(n) ==
    IF n = 0 THEN {<<>>}
    ELSE LET shorter == TokenSeqs(n - 1)
         IN shorter \cup {Append(ts, t) : ts \in {u \in shorter : Len(u) = n - 1},
                                           t \in Tokens}

Scripts == {Concat(ts) : ts \in TokenSeqs(MaxToks)}

Model(name, params) == [name |-> name, params |-> params]

\* Hyperparameter Spaces, in dict order: none, one model with one spec, a
\* model without specs before one with two, a model name holding a blank
Spaces == {
    <<>>,
    <<Model(<<"M">>, <<<<"C">>>>)>>,
    <<Model(<<"N">>, <<>>), Model(<<"M">>, <<<<"p">>, <<"C">>>>)>>,
    <<Model(<<"M">>, <<<<"C">>>>), Model(<<"X", " ", "M">>, <<<<"p">>>>)>> }

Key(model_lower, param) == model_lower \o <<"_">> \o param

\* Candidates: one with every key the Spaces ask for (and the all-lower-case
\* spelling of m_C besides), one lacking m_C
Candidates == {
    (Key(<<"m">>, <<"C">>) :> 25) @@ (Key(<<"m">>, <<"c">>) :> 6)
        @@ (Key(<<"m">>, <<"p">>) :> 7) @@ (Key(<<"x", " ", "m">>, <<"p">>) :> 8),
    (Key(<<"m">>, <<"c">>) :> 2) @@ (Key(<<"m">>, <<"p">>) :> 3)
        @@ (Key(<<"x", " ", "m">>, <<"p">>) :> 4) }

Item(k, v) == [k |-> k, v |-> v]

\* cv_args dicts: direction first or last, MIN or MAX, and one without it
CvArgs == {
    <<Item(MetricValueDirection, MIN), Item(<<"X">>, <<"X">>)>>,
    <<Item(<<"X">>, <<"X">>), Item(<<"y">>, <<"y">>),
      Item(MetricValueDirection, MAX)>>,
    <<Item(<<"X">>, <<"X">>)>> }

----------------------------------------------------------------------------
(* The engine as a state machine: a caller makes one transformation call   *)
(* on its script, and may unwrap or wrap again after wrapping.              *)

NoMatchCall == line = <<>> /\ start_ind = 0 /\ ptype = None /\ matched = None

NoMergeCall ==
    args = <<>> /\ map_args = <<>> /\ merged = None /\ reparsed = None
        /\ remerged = None

NoScriptCall ==
    /\ code = <<>> /\ space = <<>> /\ candidate = None /\ cv_args = None
    /\ result = None /\ unwrapped = None /\ logical_blocks = None
    /\ rewrapped = None /\ wrapped_code_lines = <<>>

matchVars == <<line, start_ind, ptype, matched>>

mergeVars == <<args, map_args, merged, reparsed, remerged>>

InitScript ==
    /\ pc = "ready"
    /\ code \in Scripts
    /\ space \in Spaces
    /\ candidate = None
    /\ cv_args = None
    /\ result = None
    /\ wrapped_code_lines = <<>>
    /\ unwrapped = None
    /\ rewrapped = None
    /\ logical_blocks = None
    /\ NoMatchCall
    /\ NoMergeCall

ConvertToSingleLineBlocks ==
    /\ pc = "ready"
    /\ logical_blocks' = convert_to_single_line_blocks(code)
    /\ pc' = "converted"
    /\ UNCHANGED <<code, space, candidate, cv_args, result, wrapped_code_lines,
                   unwrapped, rewrapped, matchVars, mergeVars>>

AssignHyperopt ==
    /\ pc = "ready"
    /\ \E cand \in Candidates :
          /\ candidate' = cand
          /\ result' = assign_hyperopt(code, cand, space)
    /\ pc' = "assigned"
    /\ UNCHANGED <<code, space, cv_args, wrapped_code_lines, unwrapped, rewrapped,
                   logical_blocks, matchVars, mergeVars>>

\* cv_args is the caller's dict: the call leaves it as wrap_code's pop left it
WrapCode ==
    /\ pc = "ready"
    /\ \E cv \in CvArgs :
          LET r == wrap_code(code, space, cv)
          IN /\ result' = [status |-> r.status, text |-> r.text,
                           rewrites |-> r.rewrites, given |-> cv]
             /\ cv_args' = r.cv_args
    /\ pc' = "wrapped"
    /\ UNCHANGED <<code, space, candidate, wrapped_code_lines, unwrapped, rewrapped,
                   logical_blocks, matchVars, mergeVars>>

UnwrapCode ==
    /\ pc = "wrapped"
    /\ result.status = "ok"
    /\ wrapped_code_lines' = ReadLines(result.text)
    /\ unwrapped' = unwrap_code(ReadLines(result.text))
    /\ pc' = "unwrapped"
    /\ UNCHANGED <<code, space, candidate, cv_args, result, rewrapped, logical_blocks,
                   matchVars, mergeVars>>

\* the caller wraps again with the same script, Space and cv_args objects
WrapCodeAgain ==
    /\ pc = "wrapped"
    /\ LET r == wrap_code(code, space, cv_args)
       IN /\ rewrapped' = [status |-> r.status, text |-> r.text]
          /\ cv_args' = r.cv_args
    /\ pc' = "rewrapped"
    /\ UNCHANGED <<code, space, candidate, result, wrapped_code_lines, unwrapped,
                   logical_blocks, matchVars, mergeVars>>

NextScript ==
    \/ ConvertToSingleLineBlocks
    \/ AssignHyperopt
    \/ WrapCode
    \/ UnwrapCode
    \/ WrapCodeAgain

Spec == InitScript /\ [][NextScript]_vars

----------------------------------------------------------------------------
(* The Bracket Matcher on its own: one call on a line of brackets.          *)

BracketChars == {"(", ")", "[", "]", "{", "}"}

RECURSIVE CharSeqs(_, _)
CharSeqs(chars, n) ==
    IF n = 0 THEN {<<>>}
    ELSE LET shorter == CharSeqs(chars, n - 1)
         IN shorter \cup {Append(cs, ch) : cs \in {u \in shorter : Len(u) = n - 1},
                                           ch \in chars}

InitMatch ==
    /\ pc = "ready"
    /\ line \in CharSeqs(BracketChars, MaxLineLen)
    /\ start_ind \in 1..Len(line)
    /\ ptype \in {"(", "[", "{"}
    /\ matched = None
    /\ NoScriptCall
    /\ NoMergeCall

FindMatchingParenthesis ==
    /\ pc = "ready"
    /\ matched' = find_matching_parenthesis(line, start_ind, ptype)
    /\ pc' = "matched"
    /\ UNCHANGED <<code, space, candidate, cv_args, result, wrapped_code_lines,
                   unwrapped, rewrapped, logical_blocks,
                   line, start_ind, ptype, mergeVars>>

NextMatch == FindMatchingParenthesis

SpecMatch == InitMatch /\ [][NextMatch]_vars

----------------------------------------------------------------------------
(* The Argument Merger: merge, parse the merged call back, merge again.     *)

\* str values of keyword arguments: the letter s and the quote character
StrValues == {StrVal(cs) : cs \in CharSeqs({"s", "'"}, MaxStrLen)}

Entries ==
    {Positional(<<n>>) : n \in {"x", "y"}}
        \cup {Keyword(<<k>>, v) : k \in {"a", "b"}, v \in {Num(1)} \cup StrValues}

RECURSIVE EntrySeqs(_)
EntrySeqs(n) ==
    IF n = 0 THEN {<<>>}
    ELSE LET shorter == EntrySeqs(n - 1)
         IN shorter \cup {Append(es, e) : es \in {u \in shorter : Len(u) = n - 1},
                                          e \in Entries}

\* what parse_function_call returns: positional names first, then keywords,
\* keyword names unique within one call
IsArgumentList(as) ==
    /\ \A i, j \in 1..Len(as) : i < j /\ as[i].kw => as[j].kw
    /\ \A i, j \in 1..Len(as) : i < j /\ as[i].kw => as[i].name # as[j].name

ArgumentLists == {as \in EntrySeqs(MaxArgs) : IsArgumentList(as)}

\* override mappings, in dict order: keys a and c, an int or a str value
Overrides ==
    LET vals == {Num(2), StrVal(<<"s">>)}
        one == {<<Item(<<k>>, v)>> : k \in {"a", "c"}, v \in vals}
        two == {m1 \o m2 : m1 \in one, m2 \in one}
    IN {<<>>} \cup one \cup {m \in two : m[1].k # m[2].k}

InitMerge ==
    /\ pc = "ready"
    /\ args \in ArgumentLists
    /\ map_args \in Overrides
    /\ merged = None
    /\ reparsed = None
    /\ remerged = None
    /\ NoScriptCall
    /\ NoMatchCall

scriptVars ==
    <<code, space, candidate, cv_args, result, wrapped_code_lines, unwrapped,
      rewrapped, logical_blocks>>

TransformArgs ==
    /\ pc = "ready"
    /\ merged' = transform_args(args, map_args)
    /\ pc' = "merged"
    /\ UNCHANGED <<scriptVars, matchVars, args, map_args, reparsed, remerged>>

\* the merged string is put back into a call, as the Assigner's callers do
ParseFunctionCall ==
    /\ pc = "merged"
    /\ reparsed' = parse_function_call(<<"f", "(">> \o merged \o <<")">>)
    /\ pc' = "parsed"
    /\ UNCHANGED <<scriptVars, matchVars, args, map_args, merged, remerged>>

TransformArgsAgain ==
    /\ pc = "parsed"
    /\ reparsed.status = "ok"
    /\ remerged' = transform_args(reparsed.args, map_args)
    /\ pc' = "remerged"
    /\ UNCHANGED <<scriptVars, matchVars, args, map_args, merged, reparsed>>

NextMerge == TransformArgs \/ ParseFunctionCall \/ TransformArgsAgain

SpecMerge == InitMerge /\ [][NextMerge]_vars

----------------------------------------------------------------------------
(* The Unwrapper on its own: one call on a list of lines as f.readlines()   *)
(* gives them, whoever wrote the file.                                      *)

\* lines of tabs and the letter x, each ending with its line break
WrappedLines == {l \o <<"\n">> : l \in CharSeqs({"\t", "x"}, MaxIndentLen)}

RECURSIVE LineLists(_)
LineLists(n) ==
    IF n = 0 THEN {<<>>}
    ELSE LET shorter == LineLists(n - 1)
         IN shorter \cup {Append(ls, l) : ls \in {u \in shorter : Len(u) = n - 1},
                                          l \in WrappedLines}

InitUnwrap ==
    /\ pc = "ready"
    /\ wrapped_code_lines \in LineLists(MaxLines)
    /\ code = <<>> /\ space = <<>> /\ candidate = None /\ cv_args = None
    /\ result = None /\ unwrapped = None /\ logical_blocks = None
    /\ rewrapped = None
    /\ NoMatchCall
    /\ NoMergeCall

UnwrapLines ==
    /\ pc = "ready"
    /\ unwrapped' = unwrap_code(wrapped_code_lines)
    /\ pc' = "unwrapped_lines"
    /\ UNCHANGED <<code, space, candidate, cv_args, result, wrapped_code_lines,
                   rewrapped, logical_blocks, matchVars, mergeVars>>

NextUnwrap == UnwrapLines

SpecUnwrap == InitUnwrap /\ [][NextUnwrap]_vars

----------------------------------------------------------------------------
(* Properties of the script operations.                                     *)

Faults == {"AssertionError", "IndexError", "KeyError"}

\* openers minus closers of kind t in l[s..j]
Depth(l, s, j, t) ==
    Cardinality({k \in s..j : l[k] = t})
        - Cardinality({k \in s..j : l[k] = Matching(t)})

\* the indices after s at which the depth counted from s is zero
Closers(l, s, t) == {j \in (s + 1)..Len(l) : Depth(l, s, j, t) = 0}

\* the lines of a text that ends each block with "\n", without the "\n"
OutputLines(text) ==
    LET pieces == Split(text, "\n") IN SubSeq(pieces, 1, Len(pieces) - 1)

\* the characters of identifiers in the model's alphabet
IdentChars ==
    {"M", "N", "X", "C", "m", "n", "c", "p", "x", "_"} \cup {Digits[d] : d \in 1..10}

\* the parenthesis depth of s after its first j characters
ParenDepth(s, j) ==
    Cardinality({k \in 1..j : s[k] = "("}) - Cardinality({k \in 1..j : s[k] = ")"})

\* every ")" has an earlier "(" of its own and no "(" stays open
Balanced(s) ==
    /\ \A j \in 1..Len(s) : ParenDepth(s, j) >= 0
    /\ ParenDepth(s, Len(s)) = 0

\* a call to the constructor name opens at l[i]: the name, then "(", and no
\* identifier character before the name
ModelCallAt(l, name, i) ==
    /\ MatchAt(l, name \o <<"(">>, i)
    /\ (i = 1 \/ l[i - 1] \notin IdentChars)

\* the argument list C2 and C4 expect for a model: name=value per spec in
\* spec order, the value read from cand at key(model name, spec name)
ArgumentsFrom(cand, model, key(_, _)) ==
    Join(CommaSpace,
         [i \in 1..Len(model.params) |->
            model.params[i] \o <<"=">> \o Str(cand[key(model.name, model.params[i])])])

\* the key as the code forms it: model name lower-cased, "_", the spec name
LowerModelKey(model_name, param_name) ==
    Lower(model_name) \o <<"_">> \o param_name

\* the key as C4 words it: model name + "_" + spec name, all lower-cased
AllLowerKey(model_name, param_name) ==
    Lower(model_name \o <<"_">> \o param_name)

NeededKeys(sp, key(_, _)) ==
    UNION {{key(sp[m].name, sp[m].params[i]) : i \in 1..Len(sp[m].params)} :
             m \in 1..Len(sp)}

\* C2: after assign_hyperopt returns on a paren-balanced script, every call
\* to a model constructor of the Space, wherever it stands in the text, has
\* exactly the arguments
\* name=value of that model's specs, in spec order, and no other.
C2_EveryModelCallRewritten ==
    (pc = "assigned" /\ result.status = "ok" /\ Balanced(strip_comments(code))) =>
        \A m \in 1..Len(space) : \A i \in 1..Len(result.text) :
            ModelCallAt(result.text, space[m].name, i) =>
                MatchAt(result.text,
                        ArgumentsFrom(candidate, space[m], LowerModelKey) \o <<")">>,
                        i + Len(space[m].name) + 1)

\* start of the identifier that ends right before l[i]
RECURSIVE IdentStart(_, _)
IdentStart(l, i) ==
    IF i > 1 /\ l[i - 1] \in IdentChars THEN IdentStart(l, i - 1) ELSE i

IsModelName(sp, name) == \E m \in 1..Len(sp) : sp[m].name = name

\* l[s..e] holds, or lies in the argument span of, a call to a model of sp
TouchesModelCall(l, sp, s, e) ==
    \E m \in 1..Len(sp) : \E i \in 1..Len(l) :
        /\ ModelCallAt(l, sp[m].name, i)
        /\ LET open == i + Len(sp[m].name)
               close == Closers(l, open, "(")
           IN \/ (s <= i /\ i <= e)
              \/ (close # {} /\ open < s /\ e <= Min(close))

\* the spans "name(...)" of the calls in l to functions that are no model of
\* sp and that neither hold nor lie in a call to a model of sp
OtherCalls(l, sp) ==
    {<<IdentStart(l, i), Min(Closers(l, i, "("))>> :
        i \in {k \in 1..Len(l) :
                 /\ l[k] = "("
                 /\ IdentStart(l, k) < k
                 /\ ~IsModelName(sp, SubSeq(l, IdentStart(l, k), k - 1))
                 /\ Closers(l, k, "(") # {}
                 /\ ~TouchesModelCall(l, sp, IdentStart(l, k),
                                      Min(Closers(l, k, "(")))}}

\* C3: on a paren-balanced script assign_hyperopt changes nothing outside the
\* argument lists of the Space's model calls: a block without any "<model_name>(" is emitted as the
\* merger produced it, and a call to a function that is no model of the Space
\* (also one whose name only ends with a model name) keeps its arguments.
C3_OnlyModelCallsChange ==
    (pc = "assigned" /\ result.status = "ok" /\ Balanced(strip_comments(code))) =>
        LET bs == convert_to_single_line_blocks(code).blocks
            out == OutputLines(result.text)
        IN /\ Len(out) = Len(bs)
           /\ \A b \in 1..Len(bs) :
                /\ (\A m \in 1..Len(space) :
                       Find(bs[b], space[m].name \o <<"(">>) = 0) => out[b] = bs[b]
                /\ \A call \in OtherCalls(bs[b], space) :
                       Find(out[b], SubSeq(bs[b], call[1], call[2])) # 0

\* a block without a model pattern next to one with a rewritten call
C3_WitnessUntouchedBlock ==
    /\ pc = "assigned" /\ result.status = "ok" /\ result.rewrites = 1
    /\ Len(OutputLines(result.text)) = 2
    /\ OutputLines(result.text)[2] = <<"x">>

\* C4 as stated: the value of each hyperparameter is read at the all-lower-
\* case key, so a Candidate holding those keys is assigned without fault and
\* its values at those keys are the ones written into the model calls.
C4_ReadsAllLowerKey ==
    (pc = "assigned" /\ NeededKeys(space, AllLowerKey) \subseteq DOMAIN candidate) =>
        /\ result.status # "KeyError"
        /\ result.status = "ok" =>
              \A m \in 1..Len(space) : \A l \in 1..Len(OutputLines(result.text)) :
                 LET ln == OutputLines(result.text)[l]
                     at == Find(ln, space[m].name \o <<"(">>)
                 IN at # 0 =>
                      MatchAt(ln,
                              ArgumentsFrom(candidate, space[m], AllLowerKey)
                                  \o <<")">>,
                              at + Len(space[m].name) + 1)

\* C4 amended: the key is the lower-cased model name, "_", and the spec name
\* as declared.  The call faults with KeyError exactly when the Candidate
\* lacks such a key, and in every emitted block the first call of a model has
\* as arguments the Candidate's values at those keys.
C4_ReadsLowerModelKey ==
    pc = "assigned" =>
        /\ result.status = "KeyError" <=>
              ~(NeededKeys(space, LowerModelKey) \subseteq DOMAIN candidate)
        /\ result.status = "ok" =>
              \A m \in 1..Len(space) : \A l \in 1..Len(OutputLines(result.text)) :
                 LET ln == OutputLines(result.text)[l]
                     at == Find(ln, space[m].name \o <<"(">>)
                 IN at # 0 =>
                      MatchAt(ln,
                              ArgumentsFrom(candidate, space[m], LowerModelKey)
                                  \o <<")">>,
                              at + Len(space[m].name) + 1)

\* Space {M: [C]}, a Candidate with m_C = 25 and m_c = 6, script M(x)
C4_Witness ==
    /\ pc = "assigned"
    /\ space = <<Model(<<"M">>, <<<<"C">>>>)>>
    /\ code = <<"M", "(", "x", ")">>
    /\ candidate[Key(<<"m">>, <<"c">>)] = 6
    /\ result.status = "ok"
    /\ result.text = <<"M", "(", "C", "=", "2", "5", ")", "\n">>

\* C5: a script with a ")" that no earlier "(" matches, or with a "(" still
\* open at its end, makes assign_hyperopt and wrap_code raise a fault, return
\* no text, and rewrite no model call before the fault.
C5_UnbalancedScriptFaults ==
    (pc \in {"assigned", "wrapped"} /\ ~Balanced(strip_comments(code))) =>
        /\ result.status \in Faults
        /\ result.text = <<>>
        /\ result.rewrites = 0

\* C6: every block convert_to_single_line_blocks returns is paren-balanced:
\* its depth never drops below zero and is zero at its end.
C6_BlocksBalanced ==
    (pc = "converted" /\ logical_blocks.status = "ok") =>
        \A b \in 1..Len(logical_blocks.blocks) : Balanced(logical_blocks.blocks[b])

\* the flattened parameter names of a Space, in model order then spec order
RECURSIVE FlattenedNames(_)
FlattenedNames(sp) ==
    IF sp = <<>> THEN <<>>
    ELSE [i \in 1..Len(sp[1].params) |->
             SelectSeq(Lower(sp[1].name), LAMBDA ch : ch # " ")
                 \o <<"_">> \o sp[1].params[i]]
         \o FlattenedNames(Tail(sp))

\* C10: the first line of wrap_code's result is the signature of blackbox
\* whose parameter list is exactly the flattened names joined by ", ", with
\* no empty or trailing entry.
C10_SignatureListsFlattenedNames ==
    (pc = "wrapped" /\ result.status = "ok") =>
        ReadLines(result.text)[1]
            = DefBlackbox \o Join(CommaSpace, FlattenedNames(space)) \o SignatureEnd

\* the text up to the first tab of l, the whole of l when it has none
UpToTab(l) ==
    IF Find(l, <<"\t">>) = 0 THEN l ELSE SubSeq(l, 1, Find(l, <<"\t">>) - 1)

\* the wrapped body without its indentation: the blocks with their model
\* calls rewritten to the parameter names, then the scoring lines
RewrittenBody(c, sp, given) ==
    LET bs == convert_to_single_line_blocks(c).blocks
        kwargs == [m \in 1..Len(sp) |-> WrapKeywordArguments(sp[m])]
        rest == SelectSeq(given, LAMBDA it : it.k # MetricValueDirection)
        dir == Lookup(given, MetricValueDirection)
    IN ReadLines(RewriteBlocks(bs, 1, sp, kwargs, <<>>, <<>>, 0).text)
        \o <<Tail(ImportLine)>>
        \o <<Tail(ScoreCall)
               \o Join(CommaSpace,
                       [i \in 1..Len(rest) |-> rest[i].k \o <<"=">> \o rest[i].v])
               \o ScoreEnd>>
        \o (IF dir = MAX THEN <<Tail(InvertLine)>> ELSE <<>>)

C1_WitnessTab ==
    /\ pc = "unwrapped"
    /\ code = <<"x", "\t", "x">>
    /\ unwrapped.status = "ok"
    /\ SubSeq(unwrapped.text, 1, 2) = <<"x", "f">>

----------------------------------------------------------------------------
(* Properties of the Bracket Matcher.                                       *)

\* C7: for a start index holding an opening bracket, find_matching_parenthesis
\* returns the first later index at which openers minus closers of that kind,
\* counted from the start, is zero; when there is none it raises IndexError
\* and returns no index.
C7_MatcherReturnsStructuralCloser ==
    (pc = "matched" /\ line[start_ind] = ptype) =>
        IF Closers(line, start_ind, ptype) = {}
        THEN matched = [status |-> "IndexError", ind |-> 0]
        ELSE /\ matched = [status |-> "ok",
                           ind |-> Min(Closers(line, start_ind, ptype))]
             /\ line[matched.ind] = Matching(ptype)

\* a nested opener of the same kind lies between the start and the match
C7_Witness ==
    /\ pc = "matched"
    /\ line[start_ind] = ptype
    /\ matched.status = "ok"
    /\ \E k \in (start_ind + 1)..(matched.ind - 1) : line[k] = ptype

\* the search failed although a closer of the kind follows the start
C7_WitnessNoMatch ==
    /\ pc = "matched"
    /\ line[start_ind] = ptype
    /\ matched.status = "IndexError"
    /\ \E k \in (start_ind + 1)..Len(line) : line[k] = Matching(ptype)

----------------------------------------------------------------------------
(* Properties of the Argument Merger.                                       *)

KeywordNames(as) == {as[i].name : i \in {k \in 1..Len(as) : as[k].kw}}

\* the entries the merged list is to hold: the original ones in order, the
\* overridden keywords with the override's value, then the new override keys
MergedEntries(as, map) ==
    [i \in 1..Len(as) |->
        IF as[i].kw /\ InMap(map, as[i].name)
        THEN Keyword(as[i].name, Lookup(map, as[i].name))
        ELSE as[i]]
    \o LET fresh == SelectSeq(map, LAMBDA it : it.k \notin KeywordNames(as))
       IN [j \in 1..Len(fresh) |-> Keyword(fresh[j].k, fresh[j].v)]

\* one entry as source text
EntryText(e) ==
    IF e.kw THEN e.name \o <<"=">> \o ParseArg(e.value) ELSE e.name

\* C8: transform_args emits the original entries in order (overridden
\* keywords in place with the override's value), then exactly the override
\* keys that are no keyword of the original list, once each and in the
\* mapping's order, separated by ", " with no trailing separator.
C8_MergeOrder ==
    pc \in {"merged", "parsed", "remerged"} =>
        LET es == MergedEntries(args, map_args)
        IN merged = Join(CommaSpace, [i \in 1..Len(es) |-> EntryText(es[i])])

\* a positional entry, a keyword overridden in place and a new key appended
C8_Witness ==
    /\ pc = "merged"
    /\ Len(args) = 2 /\ ~args[1].kw /\ args[2].kw
    /\ Len(map_args) = 2
    /\ map_args[2].k = args[2].name
    /\ map_args[2].v # args[2].value
    /\ map_args[1].k \notin KeywordNames(args)

\* C9: merging, parsing the merged argument string back into an Argument
\* List and merging again with the same overrides always goes through and
\* yields the first merge's string.
C9_MergeIdempotent ==
    /\ pc \in {"parsed", "remerged"} => reparsed.status = "ok"
    /\ pc = "remerged" => remerged = merged

----------------------------------------------------------------------------
(* Properties of the Unwrapper.                                             *)

\* the lines unwrap_code keeps: all but the first and the last
KeptLines == SubSeq(wrapped_code_lines, 2, Len(wrapped_code_lines) - 1)

\* C11: when every line between the first and the last begins with a tab,
\* unwrap_code returns without fault those lines in their order, each
\* without its first character (the leading tab) and otherwise unchanged,
\* further tabs and the text after them included.
C11_UnwrapRemovesOneLeadingTab ==
    (/\ pc \in {"unwrapped", "unwrapped_lines"}
     /\ \A i \in 1..Len(KeptLines) : Head(KeptLines[i]) = "\t") =>
        /\ unwrapped.status = "ok"
        /\ unwrapped.text = Concat([i \in 1..Len(KeptLines) |-> Tail(KeptLines[i])])

----------------------------------------------------------------------------
(* Frame of the Wrapper.                                                    *)

\* C12: a wrap_code call that succeeds leaves the caller's cv_args mapping
\* as it was given, and a second call with the same script, Space and
\* cv_args objects succeeds and returns the same text as the first.
C12_WrapLeavesCvArgs ==
    /\ (pc \in {"wrapped", "unwrapped"} /\ result.status = "ok") =>
            cv_args = result.given
    /\ (pc = "rewrapped" /\ result.status = "ok") =>
            /\ rewrapped.status = "ok"
            /\ rewrapped.text = result.text

====
